---- MODULE Spec2Model ----
(***************************************************************************)
(* Model of ArgosTranslateManager (src/__init__.py): the package           *)
(* availability check ensure_translation_package with its process-wide     *)
(* lock _download_lock and registry _downloading, and the facade           *)
(* translate_text, run by several concurrent callers against the external  *)
(* argostranslate engine.                                                  *)
(*                                                                         *)
(* A Python string is a sequence of one-character strings.                 *)
(***************************************************************************)
EXTENDS Integers, Sequences, FiniteSets, TLC

\* ------------------------------------------------------------------ bounds
NumCallers == 2

Callers == 1..NumCallers

\* ------------------------------------------------------------------ strings
S_auto == <<"a", "u", "t", "o">>
S_en == <<"e", "n">>
S_it == <<"i", "t">>
S_xx == <<"x", "x">>

\* Entries of get_language_list(): f"{code} - {name}".
D_auto == <<"a", "u", "t", "o", " ", "-", " ", "A", "u", "t", "o", "-", "d", "e", "t", "e", "c", "t">>
D_en == <<"e", "n", " ", "-", " ", "E", "n", "g", "l", "i", "s", "h">>
D_it == 
    <<"i", "t", " ", "-", " ", "I", "t", "a", "l", "i", "a", "n", " ", "(", "I", "t", "a", "l", "i", "a", "n", "o", ")">>

\* The texts the callers pass to translate_text: "", "  ", "hi" and
\* "Il gatto non e qui" with U+00E8.
T_empty == <<>>
T_blank == <<" ", " ">>
T_hi == <<"h", "i">>
T_gatto == 
    <<"I", "l", " ", "g", "a", "t", "t", "o", " ", "n", "o", "n", " ", "U+00E8", " ", "q", "u", "i">>

\* ord(char)
CodePoint ==
    " " :> 32 @@ "\t" :> 9 @@ "\n" :> 10 @@ "-" :> 45 @@ "(" :> 40 @@ ")" :> 41 @@ "a" :> 97 @@
    "b" :> 98 @@ "c" :> 99 @@ "d" :> 100 @@ "e" :> 101 @@ "f" :> 102 @@ "g" :> 103 @@ "h" :> 104 @@
    "i" :> 105 @@ "j" :> 106 @@ "k" :> 107 @@ "l" :> 108 @@ "m" :> 109 @@ "n" :> 110 @@ "o" :> 111 @@
    "p" :> 112 @@ "q" :> 113 @@ "r" :> 114 @@ "s" :> 115 @@ "t" :> 116 @@ "u" :> 117 @@ "v" :> 118 @@
    "w" :> 119 @@ "x" :> 120 @@ "y" :> 121 @@ "z" :> 122 @@ "A" :> 65 @@ "B" :> 66 @@ "C" :> 67 @@
    "D" :> 68 @@ "E" :> 69 @@ "F" :> 70 @@ "G" :> 71 @@ "H" :> 72 @@ "I" :> 73 @@ "J" :> 74 @@ "K" :> 75 @@
    "L" :> 76 @@ "M" :> 77 @@ "N" :> 78 @@ "O" :> 79 @@ "P" :> 80 @@ "Q" :> 81 @@ "R" :> 82 @@ "S" :> 83 @@
    "T" :> 84 @@ "U" :> 85 @@ "V" :> 86 @@ "W" :> 87 @@ "X" :> 88 @@ "Y" :> 89 @@ "Z" :> 90 @@
    "U+00E0" :> 224 @@ "U+00E1" :> 225 @@ "U+00E2" :> 226 @@ "U+00E3" :> 227 @@ "U+00E4" :> 228 @@
    "U+00E5" :> 229 @@ "U+00E6" :> 230 @@ "U+00E7" :> 231 @@ "U+00E8" :> 232 @@ "U+00E9" :> 233 @@
    "U+00EA" :> 234 @@ "U+00EB" :> 235 @@ "U+00EC" :> 236 @@ "U+00ED" :> 237 @@ "U+00EE" :> 238 @@
    "U+00EF" :> 239 @@ "U+00F0" :> 240 @@ "U+00F1" :> 241 @@ "U+00F2" :> 242 @@ "U+00F3" :> 243 @@
    "U+00F4" :> 244 @@ "U+00F5" :> 245 @@ "U+00F6" :> 246 @@ "U+00F8" :> 248 @@ "U+00F9" :> 249 @@
    "U+00FA" :> 250 @@ "U+00FB" :> 251 @@ "U+00FC" :> 252 @@ "U+00FD" :> 253 @@ "U+00FE" :> 254 @@
    "U+00FF" :> 255 @@ "U+0449" :> 1097 @@ "U+043E" :> 1086 @@ "U+0430" :> 1072 @@
    "U+043B" :> 1083 @@ "U+0435" :> 1077 @@ "U+0431" :> 1073 @@ "U+044F" :> 1103 @@
    "U+043A" :> 1082 @@ "U+0438" :> 1080 @@ "U+0439" :> 1081 @@ "U+00C8" :> 200 @@ "U+00D1" :> 209 @@
    "U+0429" :> 1065 @@ "U+041E" :> 1054 @@ "U+0447" :> 1095 @@ "U+0442" :> 1090 @@
    "U+044D" :> 1101 @@ "U+0446" :> 1094 @@ "U+4E2D" :> 20013 @@ "U+6587" :> 25991 @@
    "U+65E5" :> 26085 @@ "U+672C" :> 26412 @@ "U+8A9E" :> 35486 @@ "U+306E" :> 12398 @@
    "U+D55C" :> 54620 @@ "U+0639" :> 1593 @@ "U+05E2" :> 1506 @@ "U+03BB" :> 955 @@ "U+0E44" :> 3652

ord(char) == CodePoint[char]

\* str.lower() on one character
LowerCase ==
    "A" :> "a" @@ "B" :> "b" @@ "C" :> "c" @@ "D" :> "d" @@ "E" :> "e" @@ "F" :> "f" @@ "G" :> "g" @@
    "H" :> "h" @@ "I" :> "i" @@ "J" :> "j" @@ "K" :> "k" @@ "L" :> "l" @@ "M" :> "m" @@ "N" :> "n" @@
    "O" :> "o" @@ "P" :> "p" @@ "Q" :> "q" @@ "R" :> "r" @@ "S" :> "s" @@ "T" :> "t" @@ "U" :> "u" @@
    "V" :> "v" @@ "W" :> "w" @@ "X" :> "x" @@ "Y" :> "y" @@ "Z" :> "z" @@ "U+00C8" :> "U+00E8" @@
    "U+00D1" :> "U+00F1" @@ "U+0429" :> "U+0449" @@ "U+041E" :> "U+043E"

\* The accented characters of line 116.
AccentedChars ==
    {"U+00E0", "U+00E1", "U+00E2", "U+00E3", "U+00E4", "U+00E5", "U+00E6", "U+00E7",
     "U+00E8", "U+00E9", "U+00EA", "U+00EB", "U+00EC", "U+00ED", "U+00EE", "U+00EF",
     "U+00F0", "U+00F1", "U+00F2", "U+00F3", "U+00F4", "U+00F5", "U+00F6", "U+00F8",
     "U+00F9", "U+00FA", "U+00FB", "U+00FC", "U+00FD", "U+00FE", "U+00FF"}

\* The stop-words of line 85.
UkrainianWords ==
    {<<"U+0449", "U+043E">>, <<"U+0430", "U+043B", "U+0435">>,
     <<"U+0430", "U+0431", "U+043E">>, <<"U+044F", "U+043A", "U+0438", "U+0439">>,
     <<"U+044F", "U+043A", "U+0430">>, <<"U+044F", "U+043A", "U+0435">>}

\* The stop-words of line 117.
ItalianWords ==
    {<<"i", "l">>, <<"l", "a">>, <<"l", "e">>, <<"d", "i">>, <<"d", "a">>, <<"i", "n">>,
     <<"c", "o", "n">>, <<"p", "e", "r">>, <<"c", "h", "e">>, <<"n", "o", "n">>,
     <<"u", "n", "a">>, <<"u", "n", "o">>}

\* The stop-words of line 119.
SpanishWords ==
    {<<"e", "l">>, <<"l", "a">>, <<"l", "o", "s">>, <<"l", "a", "s">>, <<"d", "e">>,
     <<"d", "e", "l">>, <<"e", "n">>, <<"c", "o", "n">>, <<"p", "o", "r">>,
     <<"q", "u", "e">>, <<"n", "o">>, <<"e", "s">>, <<"u", "n">>, <<"u", "n", "a">>}

\* The stop-words of line 121.
FrenchWords ==
    {<<"l", "e">>, <<"l", "a">>, <<"l", "e", "s">>, <<"d", "e">>, <<"d", "u">>,
     <<"d", "e", "s">>, <<"e", "n">>, <<"d", "a", "n", "s">>, <<"a", "v", "e", "c">>,
     <<"p", "o", "u", "r">>, <<"q", "u", "e">>, <<"n", "e">>, <<"u", "n">>,
     <<"u", "n", "e">>}

\* The stop-words of line 123.
GermanWords ==
    {<<"d", "e", "r">>, <<"d", "i", "e">>, <<"d", "a", "s">>, <<"d", "e", "n">>,
     <<"d", "e", "m">>, <<"d", "e", "s">>, <<"e", "i", "n">>, <<"e", "i", "n", "e">>,
     <<"u", "n", "d">>, <<"o", "d", "e", "r">>, <<"n", "i", "c", "h", "t">>,
     <<"i", "s", "t">>}

\* The stop-words of line 125.
PortugueseWords ==
    {<<"o">>, <<"a">>, <<"o", "s">>, <<"a", "s">>, <<"d", "e">>, <<"d", "o">>,
     <<"d", "a">>, <<"e", "m">>, <<"c", "o", "m">>, <<"p", "o", "r">>, <<"q", "u", "e">>,
     <<"n", "U+00E3", "o">>, <<"u", "m">>, <<"u", "m", "a">>}

\* The stop-words of line 129.
SwedishWords ==
    {<<"o", "c", "h">>, <<"a", "t", "t">>, <<"U+00E4", "r">>, <<"d", "e", "n">>,
     <<"d", "e", "t">>, <<"e", "n">>, <<"e", "t", "t">>, <<"f", "U+00F6", "r">>,
     <<"p", "U+00E5">>, <<"a", "v">>}

\* The stop-words of line 132.
NorwegianWords ==
    {<<"o", "g">>, <<"a", "t">>, <<"e", "r">>, <<"d", "e", "n">>, <<"d", "e", "t">>,
     <<"e", "n">>, <<"e", "t">>, <<"f", "o", "r">>, <<"p", "U+00E5">>, <<"a", "v">>}

\* The stop-words of line 135.
DanishWords ==
    {<<"o", "g">>, <<"a", "t">>, <<"e", "r">>, <<"d", "e", "n">>, <<"d", "e", "t">>,
     <<"e", "n">>, <<"e", "t">>, <<"f", "o", "r">>, <<"p", "U+00E5">>, <<"a", "f">>}

\* str.strip() removes these from both ends.
Whitespace == {" ", "\t", "\n"}

RECURSIVE LStrip(_)
LStrip(s) == IF s # <<>> /\ Head(s) \in Whitespace THEN LStrip(Tail(s)) ELSE s

RECURSIVE RStrip(_)
RStrip(s) ==
    IF s # <<>> /\ s[Len(s)] \in Whitespace THEN RStrip(SubSeq(s, 1, Len(s) - 1)) ELSE s

\* text.strip()
Strip(s) == RStrip(LStrip(s))

\* text.lower()
Lower(s) == [i \in 1..Len(s) |-> IF s[i] \in DOMAIN LowerCase THEN LowerCase[s[i]] ELSE s[i]]

\* word in text: the substring test.
Contains(text, word) ==
    \E i \in 0..(Len(text) - Len(word)) : SubSeq(text, i + 1, i + Len(word)) = word

\* any(word in text_lower for word in words)
AnyWord(text_lower, words) == \E word \in words : Contains(text_lower, word)

\* any(ord(char) >= lo and ord(char) <= hi for char in text)
AnyCharIn(text, lo, hi) == \E i \in 1..Len(text) : ord(text[i]) >= lo /\ ord(text[i]) <= hi

\* Variant: the Spanish list is tried before the Italian one.
SpanishBeforeItalian(text_lower) ==
    IF AnyWord(text_lower, SpanishWords) THEN <<"e", "s">>
    ELSE IF AnyWord(text_lower, ItalianWords) THEN S_it
    ELSE IF AnyWord(text_lower, FrenchWords) THEN <<"f", "r">>
    ELSE IF AnyWord(text_lower, GermanWords) THEN <<"d", "e">>
    ELSE IF AnyWord(text_lower, PortugueseWords) THEN <<"p", "t">>
    ELSE <<>>

\* The choice among the lists of the accented branch; <<>> when none matches and
\* the function goes on to the Nordic lists.
AccentedLanguage(text_lower) ==
    IF AnyWord(text_lower, ItalianWords) THEN S_it
    ELSE IF AnyWord(text_lower, SpanishWords) THEN <<"e", "s">>
    ELSE IF AnyWord(text_lower, FrenchWords) THEN <<"f", "r">>
    ELSE IF AnyWord(text_lower, GermanWords) THEN <<"d", "e">>
    ELSE IF AnyWord(text_lower, PortugueseWords) THEN <<"p", "t">>
    ELSE <<>>

\* The Nordic lists and the default.
NordicLanguage(text_lower) ==
    IF AnyWord(text_lower, SwedishWords) THEN <<"s", "v">>
    ELSE IF AnyWord(text_lower, NorwegianWords) THEN <<"n", "o">>
    ELSE IF AnyWord(text_lower, DanishWords) THEN <<"d", "a">>
    ELSE S_en

\* Variant: the length test forgets strip().
IsShortUnstripped(text) == Len(text) < 3

\* if not text or len(text.strip()) < 3
IsShort(text) == text = <<>> \/ Len(Strip(text)) < 3

\* Variant: the Hiragana test comes before the test of the CJK ideographs.
HiraganaBeforeCJK(text, text_lower) ==
    IF AnyCharIn(text, 1024, 1279)
      THEN IF AnyWord(text_lower, UkrainianWords) THEN <<"u", "k">> ELSE <<"r", "u">>
    ELSE IF AnyCharIn(text, 12352, 12447) THEN <<"j", "a">>
    ELSE IF AnyCharIn(text, 19968, 40959) THEN <<"z", "h">>
    ELSE IF AnyCharIn(text, 44032, 55215) THEN <<"k", "o">>
    ELSE IF AnyCharIn(text, 1536, 1791) THEN <<"a", "r">>
    ELSE IF AnyCharIn(text, 1424, 1535) THEN <<"h", "e">>
    ELSE IF AnyCharIn(text, 880, 1023) THEN <<"e", "l">>
    ELSE IF AnyCharIn(text, 3584, 3711) THEN <<"t", "h">>
    ELSE <<>>

\* The tests of the script blocks, in the order of the code; <<>> when no
\* character of a block occurs and the function goes on to the Latin lists.
ScriptLanguage(text, text_lower) ==
    IF AnyCharIn(text, 1024, 1279)
      THEN IF AnyWord(text_lower, UkrainianWords) THEN <<"u", "k">> ELSE <<"r", "u">>
    ELSE IF AnyCharIn(text, 19968, 40959) THEN <<"z", "h">>
    ELSE IF AnyCharIn(text, 12352, 12447) THEN <<"j", "a">>
    ELSE IF AnyCharIn(text, 44032, 55215) THEN <<"k", "o">>
    ELSE IF AnyCharIn(text, 1536, 1791) THEN <<"a", "r">>
    ELSE IF AnyCharIn(text, 1424, 1535) THEN <<"h", "e">>
    ELSE IF AnyCharIn(text, 880, 1023) THEN <<"e", "l">>
    ELSE IF AnyCharIn(text, 3584, 3711) THEN <<"t", "h">>
    ELSE <<>>

simple_language_detect(text) ==
    IF IsShort(text) THEN S_en
    ELSE LET text_lower == Lower(text)
         IN IF ScriptLanguage(text, text_lower) # <<>>
              THEN ScriptLanguage(text, text_lower)
            ELSE IF (\E i \in 1..Len(text) : text[i] \in AccentedChars)
                    /\ AccentedLanguage(text_lower) # <<>>
              THEN AccentedLanguage(text_lower)
            ELSE NordicLanguage(text_lower)

\* " - ": the separator of a display name.
Separator == <<" ", "-", " ">>

\* display_name.split(" - ")[0] when " - " occurs in display_name, else
\* display_name.
get_language_code_from_display(display_name) ==
    IF Contains(display_name, Separator)
      THEN LET first == CHOOSE i \in 0..(Len(display_name) - 3) :
                          /\ SubSeq(display_name, i + 1, i + 3) = Separator
                          /\ \A j \in 0..(i - 1) :
                               SubSeq(display_name, j + 1, j + 3) # Separator
           IN SubSeq(display_name, 1, first)
      ELSE display_name

\* LANGUAGE_MAP: the name of each language code.
LANGUAGE_MAP ==
    <<"a", "u", "t", "o">> :> <<"A", "u", "t", "o", "-", "d", "e", "t", "e", "c", "t">> @@
    <<"e", "n">> :> <<"E", "n", "g", "l", "i", "s", "h">> @@
    <<"a", "r">> :> <<"A", "r", "a", "b", "i", "c", " ", "(", "U+0627", "U+0644", "U+0639",
        "U+0631", "U+0628", "U+064A", "U+0629", ")">> @@
    <<"a", "z">> :> <<"A", "z", "e", "r", "b", "a", "i", "j", "a", "n", "i", " ", "(", "A",
        "z", "U+0259", "r", "b", "a", "y", "c", "a", "n", ")">> @@
    <<"c", "a">> :> <<"C", "a", "t", "a", "l", "a", "n", " ", "(", "C", "a", "t", "a", "l",
        "U+00E0", ")">> @@
    <<"z", "h">> :> <<"C", "h", "i", "n", "e", "s", "e", " ", "(", "U+4E2D", "U+6587", ")">> @@
    <<"c", "s">> :> <<"C", "z", "e", "c", "h", " ", "(", "U+010C", "e", "U+0161", "t", "i",
        "n", "a", ")">> @@
    <<"d", "a">> :> <<"D", "a", "n", "i", "s", "h", " ", "(", "D", "a", "n", "s", "k", ")">> @@
    <<"n", "l">> :> <<"D", "u", "t", "c", "h", " ", "(", "N", "e", "d", "e", "r", "l", "a",
        "n", "d", "s", ")">> @@
    <<"e", "o">> :> <<"E", "s", "p", "e", "r", "a", "n", "t", "o">> @@
    <<"f", "i">> :> <<"F", "i", "n", "n", "i", "s", "h", " ", "(", "S", "u", "o", "m", "i",
        ")">> @@
    <<"f", "r">> :> <<"F", "r", "e", "n", "c", "h", " ", "(", "F", "r", "a", "n", "U+00E7",
        "a", "i", "s", ")">> @@
    <<"d", "e">> :> <<"G", "e", "r", "m", "a", "n", " ", "(", "D", "e", "u", "t", "s", "c",
        "h", ")">> @@
    <<"e", "l">> :> <<"G", "r", "e", "e", "k", " ", "(", "U+0395", "U+03BB", "U+03BB",
        "U+03B7", "U+03BD", "U+03B9", "U+03BA", "U+03AC", ")">> @@
    <<"h", "e">> :> <<"H", "e", "b", "r", "e", "w", " ", "(", "U+05E2", "U+05D1", "U+05E8",
        "U+05D9", "U+05EA", ")">> @@
    <<"h", "i">> :> <<"H", "i", "n", "d", "i", " ", "(", "U+0939", "U+093F", "U+0928",
        "U+094D", "U+0926", "U+0940", ")">> @@
    <<"h", "u">> :> <<"H", "u", "n", "g", "a", "r", "i", "a", "n", " ", "(", "M", "a", "g",
        "y", "a", "r", ")">> @@
    <<"i", "d">> :> <<"I", "n", "d", "o", "n", "e", "s", "i", "a", "n", " ", "(", "B", "a",
        "h", "a", "s", "a", " ", "I", "n", "d", "o", "n", "e", "s", "i", "a", ")">> @@
    <<"g", "a">> :> <<"I", "r", "i", "s", "h", " ", "(", "G", "a", "e", "i", "l", "g", "e",
        ")">> @@
    <<"i", "t">> :> <<"I", "t", "a", "l", "i", "a", "n", " ", "(", "I", "t", "a", "l", "i",
        "a", "n", "o", ")">> @@
    <<"j", "a">> :> <<"J", "a", "p", "a", "n", "e", "s", "e", " ", "(", "U+65E5", "U+672C",
        "U+8A9E", ")">> @@
    <<"k", "o">> :> <<"K", "o", "r", "e", "a", "n", " ", "(", "U+D55C", "U+AD6D", "U+C5B4",
        ")">> @@
    <<"l", "v">> :> <<"L", "a", "t", "v", "i", "a", "n", " ", "(", "L", "a", "t", "v", "i",
        "e", "U+0161", "u", ")">> @@
    <<"l", "t">> :> <<"L", "i", "t", "h", "u", "a", "n", "i", "a", "n", " ", "(", "L", "i",
        "e", "t", "u", "v", "i", "U+0173", ")">> @@
    <<"m", "s">> :> <<"M", "a", "l", "a", "y", " ", "(", "B", "a", "h", "a", "s", "a", " ",
        "M", "e", "l", "a", "y", "u", ")">> @@
    <<"n", "o">> :> <<"N", "o", "r", "w", "e", "g", "i", "a", "n", " ", "(", "N", "o", "r",
        "s", "k", ")">> @@
    <<"f", "a">> :> <<"P", "e", "r", "s", "i", "a", "n", " ", "(", "U+0641", "U+0627",
        "U+0631", "U+0633", "U+06CC", ")">> @@
    <<"p", "l">> :> <<"P", "o", "l", "i", "s", "h", " ", "(", "P", "o", "l", "s", "k", "i",
        ")">> @@
    <<"p", "t">> :> <<"P", "o", "r", "t", "u", "g", "u", "e", "s", "e", " ", "(", "P", "o",
        "r", "t", "u", "g", "u", "U+00EA", "s", ")">> @@
    <<"r", "o">> :> <<"R", "o", "m", "a", "n", "i", "a", "n", " ", "(", "R", "o", "m",
        "U+00E2", "n", "U+0103", ")">> @@
    <<"r", "u">> :> <<"R", "u", "s", "s", "i", "a", "n", " ", "(", "U+0420", "U+0443",
        "U+0441", "U+0441", "U+043A", "U+0438", "U+0439", ")">> @@
    <<"s", "k">> :> <<"S", "l", "o", "v", "a", "k", " ", "(", "S", "l", "o", "v", "e", "n",
        "U+010D", "i", "n", "a", ")">> @@
    <<"s", "l">> :> <<"S", "l", "o", "v", "e", "n", "i", "a", "n", " ", "(", "S", "l", "o",
        "v", "e", "n", "U+0161", "U+010D", "i", "n", "a", ")">> @@
    <<"e", "s">> :> <<"S", "p", "a", "n", "i", "s", "h", " ", "(", "E", "s", "p", "a",
        "U+00F1", "o", "l", ")">> @@
    <<"s", "v">> :> <<"S", "w", "e", "d", "i", "s", "h", " ", "(", "S", "v", "e", "n", "s",
        "k", "a", ")">> @@
    <<"t", "h">> :> <<"T", "h", "a", "i", " ", "(", "U+0E44", "U+0E17", "U+0E22", ")">> @@
    <<"t", "r">> :> <<"T", "u", "r", "k", "i", "s", "h", " ", "(", "T", "U+00FC", "r", "k",
        "U+00E7", "e", ")">> @@
    <<"u", "k">> :> <<"U", "k", "r", "a", "i", "n", "i", "a", "n", " ", "(", "U+0423",
        "U+043A", "U+0440", "U+0430", "U+0457", "U+043D", "U+0441", "U+044C", "U+043A",
        "U+0430", ")">> @@
    <<"v", "i">> :> <<"V", "i", "e", "t", "n", "a", "m", "e", "s", "e", " ", "(", "T", "i",
        "U+1EBF", "n", "g", " ", "V", "i", "U+1EC7", "t", ")">>

\* Variant: the display name leaves out the code.
name_only(code) == IF code \in DOMAIN LANGUAGE_MAP THEN LANGUAGE_MAP[code]
                   ELSE <<"U", "n", "k", "n", "o", "w", "n">>

\* f"{detected_lang} - {ArgosTranslateManager.LANGUAGE_MAP.get(detected_lang, 'Unknown')}"
display_name(code) ==
    code \o Separator \o (IF code \in DOMAIN LANGUAGE_MAP THEN LANGUAGE_MAP[code]
                          ELSE <<"U", "n", "k", "n", "o", "w", "n">>)

\* translation.translate(text): the engine's output for a text, a text that
\* names the pair.
Translated(text, s, t) == <<"[">> \o s \o <<">">> \o t \o <<"]">> \o text

\* The (source_lang, target_lang) arguments of the direct calls of
\* ensure_translation_package: the sentinel, an identity pair, two pairs the
\* upstream index lists and one of a code outside the catalog.
EnsureArgs == {<<S_auto, S_en>>, <<S_en, S_en>>, <<S_it, S_en>>, <<S_en, S_it>>,
               <<S_xx, S_en>>}

\* ------------------------------------------------------------------ engine
\* The packages the upstream index lists after update_package_index():
\* pairs <<from_code, to_code>>.
AvailablePackages == {<<S_it, S_en>>, <<S_en, S_it>>}

\* Outcomes of an engine call: it returns, or it raises an Exception.
Outcomes == {"ok", "raise"}

\* The (text, source_lang, target_lang) arguments of the calls of translate_text:
\* the two blank texts with a source to detect, a detected source with a
\* package upstream, a detected source equal to the target, equal display
\* names, a source no package has, and a short text detected as English.
TranslateArgs ==
    {<<T_empty, D_auto, D_en>>, <<T_blank, D_auto, D_it>>, <<T_gatto, D_auto, D_en>>,
     <<T_gatto, D_auto, D_it>>, <<T_hi, D_it, D_it>>, <<T_hi, S_xx, D_en>>,
     <<T_hi, D_auto, D_it>>}

\* The longest text the detector is called with.
MaxTextLen == 4

\* Characters of the script blocks the detector tests (Cyrillic, with an upper
\* case letter, CJK, Hiragana, Hangul, Arabic, Hebrew, Greek, Thai), a blank and
\* an accented letter.
ScriptAlphabet ==
    {"U+0449", "U+043E", "U+0429", "U+4E2D", "U+306E", "U+D55C", "U+0639", "U+05E2",
     "U+03BB", "U+0E44", " ", "U+00E8"}

\* Latin letters that spell stop-words of the five lists of the accented branch,
\* an upper case letter, a blank and an accented character.
LatinAlphabet ==
    {"U+00E8", " ", "a", "d", "e", "i", "l", "o", "s", "t", "u", "L"}

\* The texts simple_language_detect is called with: every text of at most
\* MaxTextLen characters over one of the two alphabets, and a sentence.
DetectTexts ==
    UNION {[1..n -> ScriptAlphabet] \cup [1..n -> LatinAlphabet] : n \in 0..MaxTextLen}
        \cup {T_gatto}

\* The (text, target_language, always_translate) arguments of the calls of
\* conditional_translate: a text detected as the target's language with and
\* without always_translate, texts detected as another language, a short text
\* detected as English with an English target, and a blank text.
ConditionalArgs ==
    {<<T_gatto, D_it, TRUE>>, <<T_gatto, D_it, FALSE>>, <<T_gatto, D_en, FALSE>>,
     <<T_hi, D_en, TRUE>>, <<T_hi, D_it, FALSE>>, <<T_blank, D_en, TRUE>>}

VARIABLES
    lock,           \* _download_lock: 0 when free, else the caller holding it
    downloading,    \* _downloading: the set of package keys
    installed,      \* engine: the packages installed on disk
    visible,        \* engine: the packages its translate layer has loaded
    pc,             \* per caller: the place in the code
    op,             \* per caller: "ensure" | "translate" | "conditional" | "detect"
                    \*   | "none"
    text,           \* per caller: translate_text's text
    source_display, \* per caller: translate_text's source_lang (a display name)
    target_display, \* per caller: translate_text's target_lang (a display name)
    source_lang,    \* per caller: source_code of translate_text, source_lang of
                    \*   ensure_translation_package
    target_lang,    \* per caller: target_code of translate_text, target_lang of
                    \*   ensure_translation_package
    called,         \* per caller: ensure_translation_package "none" | "active" | "returned"
    ret,            \* per caller: ensure_translation_package's return value
    exc,            \* per caller: an exception is propagating
    download_path,  \* per caller: the package target_package.download() fetched
    elog,           \* per caller: engine calls made inside ensure_translation_package
    tlog,           \* per caller: engine calls made by translate_text itself
    out,            \* per caller: translate_text's return value, final_text of
                    \*   conditional_translate
    detected,       \* per caller: what simple_language_detect returned, <<>>
                    \*   when it was not called
    always_translate, \* per caller: conditional_translate's always_translate
    readyPairs      \* history: the pairs ensure_translation_package returned True for

translateVars ==
    <<text, source_display, target_display, tlog, out, detected, always_translate>>

vars == <<lock, downloading, installed, visible, pc, op, source_lang, target_lang,
          called, ret, exc, download_path, elog, readyPairs, translateVars>>

\* ------------------------------------------------------------------ helpers
Logged(l, name) == \E i \in 1..Len(l) : l[i][1] = name

LoggedAs(l, name, outcome) == \E i \in 1..Len(l) : l[i] = <<name, outcome>>

Faulted(l) == \E i \in 1..Len(l) : l[i][2] = "raise"

\* package_key = f"{source_lang}-{target_lang}"
package_key(s, t) == s \o <<"-">> \o t

Key(c) == package_key(source_lang[c], target_lang[c])

\* The codes of the languages get_installed_languages() returns for a set of
\* loaded packages.
LanguageCodes(pkgs) == {p[1] : p \in pkgs} \cup {p[2] : p \in pkgs}

\* source_language.get_translation(target_language) is not None
HasTranslation(pkgs, s, t) == <<s, t>> \in pkgs

\* Variant: the is_installed() test always fails.
IsNeverInstalled(s, t) == FALSE

\* target_package.is_installed()
IsInstalled(s, t) == <<s, t>> \in installed

\* Variant: the installed check never takes the working path.
NeverWorking(translation) == FALSE

\* if translation: (the working path of the installed check)
Working(translation) == translation

\* Variant: the early return for "auto" is missing.
NeedsNoPackageSameOnly(s, t) == s = t

\* The two early returns of ensure_translation_package.
NeedsNoPackage(s, t) == s = S_auto \/ s = t

\* The test of the registry under the lock.
AlreadyDownloading(key) == key \in downloading

\* Variant: the with statement excludes nobody.
LockIsAlwaysFree == TRUE

\* threading.Lock: acquire succeeds only when no caller holds it.
LockIsFree == lock = 0

\* Variant: the search compares the target code only.
target_package_by_target(s, t) == {p \in AvailablePackages : p[2] = t}

\* The search of the available packages for from_code == source_lang and
\* to_code == target_lang: the packages that match, {} for None.
target_package(s, t) == {p \in AvailablePackages : p[1] = s /\ p[2] = t}

\* Variant: the key is not put into the registry.
AddNothing(key) == downloading

\* cls._downloading.add(package_key)
Add(key) == downloading \cup {key}

\* Variant: the finally clause discards nothing.
DiscardNothing(key) == downloading

\* finally: cls._downloading.discard(package_key)
Discard(key) == downloading \ {key}

\* Variant: no except clause, the exception goes on to the caller.
EnsureReraises == [ret |-> FALSE, exc |-> TRUE]

\* Variant: the except clause reports the pair as ready.
EnsureExceptReady == [ret |-> TRUE, exc |-> FALSE]

\* except Exception: ... return False
EnsureExcept == [ret |-> FALSE, exc |-> FALSE]

\* The class attributes as defined, no call made yet; the engine starts with
\* any of the upstream packages on disk, all of them loaded.
Init ==
    /\ lock = 0
    /\ downloading = {}
    /\ installed \in SUBSET AvailablePackages
    /\ visible = installed
    /\ pc = [c \in Callers |-> "idle"]
    /\ op = [c \in Callers |-> "none"]
    /\ source_lang = [c \in Callers |-> <<>>]
    /\ target_lang = [c \in Callers |-> <<>>]
    /\ called = [c \in Callers |-> "none"]
    /\ ret = [c \in Callers |-> FALSE]
    /\ exc = [c \in Callers |-> FALSE]
    /\ download_path = [c \in Callers |-> <<>>]
    /\ elog = [c \in Callers |-> <<>>]
    /\ readyPairs = {}
    /\ text = [c \in Callers |-> <<>>]
    /\ source_display = [c \in Callers |-> <<>>]
    /\ target_display = [c \in Callers |-> <<>>]
    /\ tlog = [c \in Callers |-> <<>>]
    /\ out = [c \in Callers |-> <<>>]
    /\ detected = [c \in Callers |-> <<>>]
    /\ always_translate = [c \in Callers |-> FALSE]

\* ------------------------------------------------------------------ ensure_translation_package
\* A caller calls ensure_translation_package(s, t): the two early returns, or
\* on to the with statement.
CallEnsure(c, s, t) ==
    /\ pc[c] = "idle"
    /\ op' = [op EXCEPT ![c] = "ensure"]
    /\ source_lang' = [source_lang EXCEPT ![c] = s]
    /\ target_lang' = [target_lang EXCEPT ![c] = t]
    /\ IF NeedsNoPackage(s, t)
         THEN /\ ret' = [ret EXCEPT ![c] = TRUE]
              /\ called' = [called EXCEPT ![c] = "returned"]
              /\ readyPairs' = readyPairs \cup {<<s, t>>}
              /\ pc' = [pc EXCEPT ![c] = "done"]
         ELSE /\ called' = [called EXCEPT ![c] = "active"]
              /\ pc' = [pc EXCEPT ![c] = "lock"]
              /\ UNCHANGED <<ret, readyPairs>>
    /\ UNCHANGED <<lock, downloading, installed, visible, exc, download_path, elog>>
    /\ UNCHANGED translateVars

\* with cls._download_lock: acquire, then the test of the registry.
LockAndCheck(c) ==
    /\ pc[c] = "lock"
    /\ LockIsFree
    /\ lock' = c
    /\ IF AlreadyDownloading(Key(c))
         THEN /\ ret' = [ret EXCEPT ![c] = FALSE]
              /\ pc' = [pc EXCEPT ![c] = "unlock"]
         ELSE /\ pc' = [pc EXCEPT ![c] = "installed"]
              /\ UNCHANGED ret
    /\ UNCHANGED <<downloading, installed, visible, op, source_lang, target_lang,
                   called, exc, download_path, elog, readyPairs>>
    /\ UNCHANGED translateVars

\* An engine call inside the try block raised: the except clause, then on to
\* the finally clause.
Raised(c, log) ==
    /\ elog' = [elog EXCEPT ![c] = log]
    /\ ret' = [ret EXCEPT ![c] = EnsureExcept.ret]
    /\ exc' = [exc EXCEPT ![c] = EnsureExcept.exc]
    /\ pc' = [pc EXCEPT ![c] = "finally"]

\* return <value> inside the try block: on to the finally clause.
Returns(c, log, value) ==
    /\ elog' = [elog EXCEPT ![c] = log]
    /\ ret' = [ret EXCEPT ![c] = value]
    /\ exc' = exc
    /\ pc' = [pc EXCEPT ![c] = "finally"]

\* The try block goes on to its next engine call.
GoesOn(c, log, next) ==
    /\ elog' = [elog EXCEPT ![c] = log]
    /\ pc' = [pc EXCEPT ![c] = next]
    /\ UNCHANGED <<ret, exc>>

\* get_installed_languages() and the lookup of a working translation. The
\* engine reloads its installed packages or answers from what it has loaded.
CheckInstalled(c) ==
    /\ pc[c] = "installed"
    /\ \E o1 \in Outcomes :
         LET log1 == Append(elog[c], <<"get_installed_languages", o1>>)
         IN IF o1 = "raise"
              THEN Raised(c, log1) /\ UNCHANGED visible
              ELSE \E snapshot \in {visible, installed} :
                     LET s == source_lang[c]
                         t == target_lang[c]
                         found == HasTranslation(snapshot, s, t)
                     IN /\ visible' = snapshot
                        /\ IF s \notin LanguageCodes(snapshot)
                              \/ t \notin LanguageCodes(snapshot)
                             THEN GoesOn(c, log1, "update")
                             ELSE \E o2 \in Outcomes :
                                    LET log2 == Append(log1,
                                                  <<"get_translation",
                                                    IF o2 = "raise" THEN "raise"
                                                    ELSE IF found THEN "ok"
                                                    ELSE "none">>)
                                    IN IF o2 = "raise" THEN Raised(c, log2)
                                       ELSE IF Working(found)
                                       THEN Returns(c, log2, TRUE)
                                       ELSE GoesOn(c, log2, "update")
    /\ UNCHANGED <<lock, downloading, installed, op, source_lang, target_lang,
                   called, download_path, readyPairs>>
    /\ UNCHANGED translateVars

\* argostranslate.package.update_package_index()
UpdateIndex(c) ==
    /\ pc[c] = "update"
    /\ \E o \in Outcomes :
         LET log == Append(elog[c], <<"update_package_index", o>>)
         IN IF o = "raise" THEN Raised(c, log) ELSE GoesOn(c, log, "list")
    /\ UNCHANGED <<lock, downloading, installed, visible, op, source_lang,
                   target_lang, called, download_path, readyPairs>>
    /\ UNCHANGED translateVars

\* get_available_packages(), the search for the package, is_installed(), and
\* the registration of the download.
ListPackages(c) ==
    /\ pc[c] = "list"
    /\ \E o1 \in Outcomes :
         LET s == source_lang[c]
             t == target_lang[c]
             log1 == Append(elog[c], <<"get_available_packages", o1>>)
         IN IF o1 = "raise"
              THEN Raised(c, log1) /\ UNCHANGED downloading
              ELSE IF target_package(s, t) = {}
              THEN Returns(c, log1, FALSE) /\ UNCHANGED downloading
              ELSE \E o2 \in Outcomes :
                     LET package == CHOOSE p \in target_package(s, t) : TRUE
                         is_installed == IsInstalled(package[1], package[2])
                         log2 == Append(log1,
                                   <<"is_installed",
                                     IF o2 = "raise" THEN "raise"
                                     ELSE IF is_installed THEN "yes"
                                     ELSE "no">>)
                     IN IF o2 = "raise"
                          THEN Raised(c, log2) /\ UNCHANGED downloading
                          ELSE IF is_installed
                          THEN Returns(c, log2, TRUE) /\ UNCHANGED downloading
                          ELSE /\ downloading' = Add(Key(c))
                               /\ GoesOn(c, log2, "download")
    /\ UNCHANGED <<lock, installed, visible, op, source_lang, target_lang,
                   called, download_path, readyPairs>>
    /\ UNCHANGED translateVars

\* download_path = target_package.download()
Download(c) ==
    /\ pc[c] = "download"
    /\ \E o \in Outcomes :
         LET log == Append(elog[c], <<"download", o>>)
         IN IF o = "raise"
              THEN Raised(c, log) /\ UNCHANGED download_path
              ELSE /\ GoesOn(c, log, "install")
                   /\ download_path' =
                        [download_path EXCEPT
                           ![c] = CHOOSE p \in target_package(source_lang[c],
                                                              target_lang[c]) : TRUE]
    /\ UNCHANGED <<lock, downloading, installed, visible, op, source_lang,
                   target_lang, called, readyPairs>>
    /\ UNCHANGED translateVars

\* argostranslate.package.install_from_path(download_path); return True
Install(c) ==
    /\ pc[c] = "install"
    /\ \E o \in Outcomes :
         LET log == Append(elog[c], <<"install_from_path", o>>)
         IN IF o = "raise"
              THEN Raised(c, log) /\ UNCHANGED installed
              ELSE /\ Returns(c, log, TRUE)
                   /\ installed' = installed \cup {download_path[c]}
    /\ UNCHANGED <<lock, downloading, visible, op, source_lang, target_lang,
                   called, download_path, readyPairs>>
    /\ UNCHANGED translateVars

\* finally: cls._downloading.discard(package_key)
Finally(c) ==
    /\ pc[c] = "finally"
    /\ downloading' = Discard(Key(c))
    /\ pc' = [pc EXCEPT ![c] = "unlock"]
    /\ UNCHANGED <<lock, installed, visible, op, source_lang, target_lang, called,
                   ret, exc, download_path, elog, readyPairs>>
    /\ UNCHANGED translateVars

\* Variant: the test forgets strip().
IsEmpty(tx) == tx = <<>>

\* if not text or not text.strip()
IsBlank(tx) == tx = <<>> \/ Strip(tx) = <<>>

\* Variant: the sentinel is passed on as the source code.
SourceAsGiven(code, tx) == code

\* if source_code == "auto": source_code = simple_language_detect(text)
DetectedSource(code, tx) == IF code = S_auto THEN simple_language_detect(tx) ELSE code

\* Variant: the test of identical codes is missing.
NeverSameLanguage(source_code, target_code) == FALSE

\* if source_code == target_code
SameLanguage(source_code, target_code) == source_code = target_code

\* Variant: no except clause in translate_text.
translate_reraises(txt) == [out |-> txt, exc |-> TRUE]

\* except Exception: ... return text (of translate_text)
translate_except(txt) == [out |-> txt, exc |-> FALSE]

\* Variant: the value of ensure_translation_package is not tested.
PackageAssumed(value) == TRUE

\* if not cls.ensure_translation_package(source_code, target_code)
PackageEnsured(value) == value

\* The except clause of translate_text for caller c.
Caught(c) ==
    LET h == translate_except(text[c])
    IN /\ out' = [out EXCEPT ![c] = h.out]
       /\ exc' = [exc EXCEPT ![c] = h.exc]
       /\ pc' = [pc EXCEPT ![c] = IF h.exc THEN "raised" ELSE "done"]

\* return <value> from translate_text
TranslateReturns(c, value) ==
    /\ out' = [out EXCEPT ![c] = value]
    /\ pc' = [pc EXCEPT ![c] = "done"]

\* Variant: the lock is not released on the way out.
StillHeld(c) == c

\* The exit of the with statement: _download_lock is released.
Released(c) == 0

\* The with statement's exit releases the lock, and ensure_translation_package
\* returns: to a direct caller, or into the try block of translate_text.
Unlock(c) ==
    /\ pc[c] = "unlock"
    /\ lock' = Released(c)
    /\ called' = [called EXCEPT ![c] = "returned"]
    /\ readyPairs' = IF ret[c] /\ ~exc[c]
                       THEN readyPairs \cup {<<source_lang[c], target_lang[c]>>}
                       ELSE readyPairs
    /\ IF op[c] = "ensure"
         THEN /\ pc' = [pc EXCEPT ![c] = IF exc[c] THEN "raised" ELSE "done"]
              /\ UNCHANGED <<exc, out>>
         ELSE IF exc[c] THEN Caught(c)
         ELSE /\ pc' = [pc EXCEPT ![c] = "lookup"]
              /\ UNCHANGED <<exc, out>>
    /\ UNCHANGED <<downloading, installed, visible, op, source_lang, target_lang,
                   ret, download_path, elog, text, source_display, target_display,
                   tlog, detected, always_translate>>

\* ------------------------------------------------------------------ translate_text
\* translate_text(tx, sd, td) from its first line: the blank text, the
\* resolution of the codes, the identical codes, and the call of
\* ensure_translation_package up to its with statement.
TranslateText(c, tx, sd, td) ==
    IF IsBlank(tx)
      THEN /\ TranslateReturns(c, tx)
           /\ UNCHANGED <<source_lang, target_lang, called, ret, readyPairs>>
      ELSE LET code == get_language_code_from_display(sd)
               target_code == get_language_code_from_display(td)
               source_code == DetectedSource(code, tx)
           IN /\ source_lang' = [source_lang EXCEPT ![c] = source_code]
              /\ target_lang' = [target_lang EXCEPT ![c] = target_code]
              /\ IF SameLanguage(source_code, target_code)
                   THEN /\ TranslateReturns(c, tx)
                        /\ UNCHANGED <<called, ret, readyPairs>>
                   ELSE IF NeedsNoPackage(source_code, target_code)
                   THEN /\ ret' = [ret EXCEPT ![c] = TRUE]
                        /\ called' = [called EXCEPT ![c] = "returned"]
                        /\ readyPairs' = readyPairs \cup {<<source_code, target_code>>}
                        /\ pc' = [pc EXCEPT ![c] = "lookup"]
                        /\ out' = out
                   ELSE /\ called' = [called EXCEPT ![c] = "active"]
                        /\ pc' = [pc EXCEPT ![c] = "lock"]
                        /\ UNCHANGED <<ret, readyPairs, out>>

\* A caller calls translate_text(tx, sd, td); the detector runs when the text is
\* not blank and the source resolves to "auto".
CallTranslate(c, tx, sd, td) ==
    /\ pc[c] = "idle"
    /\ op' = [op EXCEPT ![c] = "translate"]
    /\ text' = [text EXCEPT ![c] = tx]
    /\ source_display' = [source_display EXCEPT ![c] = sd]
    /\ target_display' = [target_display EXCEPT ![c] = td]
    /\ detected' = [detected EXCEPT
                      ![c] = IF ~IsBlank(tx) /\ get_language_code_from_display(sd) = S_auto
                               THEN simple_language_detect(tx)
                               ELSE <<>>]
    /\ TranslateText(c, tx, sd, td)
    /\ UNCHANGED <<lock, downloading, installed, visible, exc, download_path, elog,
                   tlog, always_translate>>

\* ------------------------------------------------------------------ conditional_translate
\* if always_translate or detected_lang != target_code
TranslationWanted(always, detected_lang, target_code) ==
    always \/ detected_lang # target_code

\* A caller calls conditional_translate(tx, clip, td, always): the blank text,
\* the detection, and either final_text = text or the call of translate_text
\* with the display name of the detected language, whose value is final_text.
CallConditional(c, tx, td, always) ==
    /\ pc[c] = "idle"
    /\ op' = [op EXCEPT ![c] = "conditional"]
    /\ text' = [text EXCEPT ![c] = tx]
    /\ target_display' = [target_display EXCEPT ![c] = td]
    /\ always_translate' = [always_translate EXCEPT ![c] = always]
    /\ IF Strip(tx) = <<>>
         THEN /\ TranslateReturns(c, tx)
              /\ UNCHANGED <<source_display, detected, source_lang, target_lang, called,
                             ret, readyPairs>>
         ELSE LET detected_lang == simple_language_detect(tx)
                  target_code == get_language_code_from_display(td)
              IN /\ detected' = [detected EXCEPT ![c] = detected_lang]
                 /\ IF TranslationWanted(always, detected_lang, target_code)
                      THEN /\ source_display' = [source_display EXCEPT
                                                   ![c] = display_name(detected_lang)]
                           /\ TranslateText(c, tx, display_name(detected_lang), td)
                      ELSE /\ TranslateReturns(c, tx)
                           /\ UNCHANGED <<source_display, source_lang, target_lang,
                                          called, ret, readyPairs>>
    /\ UNCHANGED <<lock, downloading, installed, visible, exc, download_path, elog,
                   tlog>>

\* The test of ensure_translation_package's value, get_installed_languages(),
\* the two language handles and the translation between them.
Lookup(c) ==
    /\ pc[c] = "lookup"
    /\ IF ~PackageEnsured(ret[c])
         THEN TranslateReturns(c, text[c]) /\ UNCHANGED <<tlog, visible, exc>>
         ELSE \E o1 \in Outcomes :
           LET log1 == Append(tlog[c], <<"get_installed_languages", o1>>)
           IN IF o1 = "raise"
                THEN Caught(c) /\ tlog' = [tlog EXCEPT ![c] = log1] /\ UNCHANGED visible
                ELSE \E snapshot \in {visible, installed} :
                       LET s == source_lang[c]
                           t == target_lang[c]
                           found == HasTranslation(snapshot, s, t)
                       IN /\ visible' = snapshot
                          /\ IF s \notin LanguageCodes(snapshot)
                                \/ t \notin LanguageCodes(snapshot)
                               THEN /\ TranslateReturns(c, text[c])
                                    /\ tlog' = [tlog EXCEPT ![c] = log1]
                                    /\ exc' = exc
                               ELSE \E o2 \in Outcomes :
                                      LET log2 == Append(log1,
                                                    <<"get_translation",
                                                      IF o2 = "raise" THEN "raise"
                                                      ELSE IF found THEN "ok"
                                                      ELSE "none">>)
                                      IN /\ tlog' = [tlog EXCEPT ![c] = log2]
                                         /\ IF o2 = "raise" THEN Caught(c)
                                            ELSE IF ~found
                                            THEN /\ TranslateReturns(c, text[c])
                                                 /\ exc' = exc
                                            ELSE /\ pc' = [pc EXCEPT ![c] = "translate"]
                                                 /\ UNCHANGED <<out, exc>>
    /\ UNCHANGED <<lock, downloading, installed, op, source_lang, target_lang, called,
                   ret, download_path, elog, readyPairs, text, source_display,
                   target_display, detected, always_translate>>

\* translated_text = translation.translate(text); return translated_text
Translate(c) ==
    /\ pc[c] = "translate"
    /\ \E o \in Outcomes :
         /\ tlog' = [tlog EXCEPT ![c] = Append(tlog[c], <<"translate", o>>)]
         /\ IF o = "raise"
              THEN Caught(c)
              ELSE /\ TranslateReturns(c, Translated(text[c], source_lang[c],
                                                     target_lang[c]))
                   /\ exc' = exc
    /\ UNCHANGED <<lock, downloading, installed, visible, op, source_lang, target_lang,
                   called, ret, download_path, elog, readyPairs, text, source_display,
                   target_display, detected, always_translate>>

\* The caller's call is over; it may call again.
Return(c) ==
    /\ pc[c] \in {"done", "raised"}
    /\ pc' = [pc EXCEPT ![c] = "idle"]
    /\ op' = [op EXCEPT ![c] = "none"]
    /\ source_lang' = [source_lang EXCEPT ![c] = <<>>]
    /\ target_lang' = [target_lang EXCEPT ![c] = <<>>]
    /\ called' = [called EXCEPT ![c] = "none"]
    /\ ret' = [ret EXCEPT ![c] = FALSE]
    /\ exc' = [exc EXCEPT ![c] = FALSE]
    /\ download_path' = [download_path EXCEPT ![c] = <<>>]
    /\ elog' = [elog EXCEPT ![c] = <<>>]
    /\ text' = [text EXCEPT ![c] = <<>>]
    /\ source_display' = [source_display EXCEPT ![c] = <<>>]
    /\ target_display' = [target_display EXCEPT ![c] = <<>>]
    /\ tlog' = [tlog EXCEPT ![c] = <<>>]
    /\ out' = [out EXCEPT ![c] = <<>>]
    /\ detected' = [detected EXCEPT ![c] = <<>>]
    /\ always_translate' = [always_translate EXCEPT ![c] = FALSE]
    /\ UNCHANGED <<lock, downloading, installed, visible, readyPairs>>

\* ------------------------------------------------------------------ simple_language_detect
\* A caller that holds a text calls simple_language_detect(text).
CallDetect(c) ==
    /\ pc[c] = "idle"
    /\ op[c] = "detect"
    /\ detected' = [detected EXCEPT ![c] = simple_language_detect(text[c])]
    /\ pc' = [pc EXCEPT ![c] = "done"]
    /\ UNCHANGED <<lock, downloading, installed, visible, op, source_lang,
                   target_lang, called, ret, exc, download_path, elog, readyPairs,
                   text, source_display, target_display, tlog, out, always_translate>>

Next ==
    \E c \in Callers :
        \/ \E a \in EnsureArgs : CallEnsure(c, a[1], a[2])
        \/ \E a \in TranslateArgs : CallTranslate(c, a[1], a[2], a[3])
        \/ LockAndCheck(c)
        \/ CheckInstalled(c)
        \/ UpdateIndex(c)
        \/ ListPackages(c)
        \/ Download(c)
        \/ Install(c)
        \/ Finally(c)
        \/ Unlock(c)
        \/ Lookup(c)
        \/ Translate(c)
        \/ Return(c)

Spec == Init /\ [][Next]_vars

\* The detector alone, a pure function: one caller holds a text of DetectTexts
\* and is about to call simple_language_detect with it; nothing else has run.
DetectInit ==
    /\ lock = 0
    /\ downloading = {}
    /\ installed = {}
    /\ visible = {}
    /\ pc = [c \in Callers |-> "idle"]
    /\ \E d \in {CHOOSE c \in Callers : TRUE} :
         /\ op = [c \in Callers |-> IF c = d THEN "detect" ELSE "none"]
         /\ \E tx \in DetectTexts :
              text = [c \in Callers |-> IF c = d THEN tx ELSE <<>>]
    /\ source_lang = [c \in Callers |-> <<>>]
    /\ target_lang = [c \in Callers |-> <<>>]
    /\ called = [c \in Callers |-> "none"]
    /\ ret = [c \in Callers |-> FALSE]
    /\ exc = [c \in Callers |-> FALSE]
    /\ download_path = [c \in Callers |-> <<>>]
    /\ elog = [c \in Callers |-> <<>>]
    /\ readyPairs = {}
    /\ source_display = [c \in Callers |-> <<>>]
    /\ target_display = [c \in Callers |-> <<>>]
    /\ tlog = [c \in Callers |-> <<>>]
    /\ out = [c \in Callers |-> <<>>]
    /\ detected = [c \in Callers |-> <<>>]
    /\ always_translate = [c \in Callers |-> FALSE]

NextDetect == \E c \in Callers : CallDetect(c)

SpecDetect == DetectInit /\ [][NextDetect]_vars

\* conditional_translate called by concurrent callers.
NextConditional ==
    \E c \in Callers :
        \/ \E a \in ConditionalArgs : CallConditional(c, a[1], a[2], a[3])
        \/ LockAndCheck(c)
        \/ CheckInstalled(c)
        \/ UpdateIndex(c)
        \/ ListPackages(c)
        \/ Download(c)
        \/ Install(c)
        \/ Finally(c)
        \/ Unlock(c)
        \/ Lookup(c)
        \/ Translate(c)
        \/ Return(c)

SpecConditional == Init /\ [][NextConditional]_vars

\* ------------------------------------------------------------------ progress
\* The calls made where progress is checked: direct calls with the sentinel, for
\* two pairs listed upstream and for one that is not, and translate_text calls
\* with a source to detect and with a source no package has.
ProgressEnsureArgs == {<<S_auto, S_en>>, <<S_it, S_en>>, <<S_en, S_it>>, <<S_xx, S_en>>}

ProgressTranslateArgs == {<<T_gatto, D_auto, D_en>>, <<T_hi, S_xx, D_en>>}

\* The callers call again and again, nothing installed at the start.
ProgressInit == Init /\ installed = {}

NextProgress ==
    \E c \in Callers :
        \/ \E a \in ProgressEnsureArgs : CallEnsure(c, a[1], a[2])
        \/ \E a \in ProgressTranslateArgs : CallTranslate(c, a[1], a[2], a[3])
        \/ LockAndCheck(c)
        \/ CheckInstalled(c)
        \/ UpdateIndex(c)
        \/ ListPackages(c)
        \/ Download(c)
        \/ Install(c)
        \/ Finally(c)
        \/ Unlock(c)
        \/ Lookup(c)
        \/ Translate(c)
        \/ Return(c)

\* Every engine call returns or raises, every thread that can run does run, and
\* a thread that waits for _download_lock gets it when it is free again and
\* again (strong fairness: the lock is free only from time to time). Nothing
\* obliges a caller to call.
Fairness ==
    \A c \in Callers :
        /\ SF_vars(LockAndCheck(c))
        /\ WF_vars(CheckInstalled(c))
        /\ WF_vars(UpdateIndex(c))
        /\ WF_vars(ListPackages(c))
        /\ WF_vars(Download(c))
        /\ WF_vars(Install(c))
        /\ WF_vars(Finally(c))
        /\ WF_vars(Unlock(c))
        /\ WF_vars(Lookup(c))
        /\ WF_vars(Translate(c))

SpecProgress == ProgressInit /\ [][NextProgress]_vars /\ Fairness

\* ------------------------------------------------------------------ properties
\* Caller c is inside the download/install step of its pair.
InFlight(c) == pc[c] \in {"download", "install"}

Pair(c) == <<source_lang[c], target_lang[c]>>

\* C1: single-flight. In every reachable state no two callers are inside the
\* download/install step for the same package key.
C1_SingleFlight ==
    \A c1 \in Callers, c2 \in Callers :
        (InFlight(c1) /\ InFlight(c2) /\ Key(c1) = Key(c2)) => c1 = c2

\* A caller is in flight while another caller has called for the same pair and
\* the key is in the registry.
C1_Witness ==
    \E c1 \in Callers, c2 \in Callers :
        /\ c1 # c2
        /\ InFlight(c1)
        /\ Key(c1) \in downloading
        /\ called[c2] = "active"
        /\ Key(c2) = Key(c1)

\* C2: a second caller for a pair whose download is in flight gets its answer
\* at once: it never waits at the with statement for the caller that is
\* downloading that pair.
C2_BusyWithoutWaiting ==
    \A c1 \in Callers, c2 \in Callers :
        (c1 # c2 /\ InFlight(c1) /\ Key(c2) = Key(c1) /\ pc[c2] = "lock") => lock # c1

\* C3: the lock is not held during the download/install sequence.
C3_LockNotHeldInFlight == \A c \in Callers : InFlight(c) => lock # c

\* Caller c has put its key into the registry and not yet discarded it.
Owns(c, key) ==
    /\ called[c] = "active"
    /\ Key(c) = key
    /\ pc[c] \in {"download", "install", "finally"}

\* C4: after a call of ensure_translation_package has returned, on any path,
\* its key is not in the registry unless another caller owns it.
C4_RegistryReleased ==
    \A c \in Callers :
        called[c] = "returned" =>
            \/ Key(c) \notin downloading
            \/ \E c2 \in Callers \ {c} : Owns(c2, Key(c))

\* A call has returned after download() raised.
C4_Witness ==
    \E c \in Callers :
        /\ called[c] = "returned"
        /\ LoggedAs(elog[c], "download", "raise")
        /\ Key(c) \notin downloading

\* Some step of caller c's translate_text call failed: an engine call raised,
\* or the call ended without a translation made.
StepFailed(c) ==
    \/ Faulted(elog[c])
    \/ Faulted(tlog[c])
    \/ ~LoggedAs(tlog[c], "translate", "ok")

\* C5: translate_text never raises, and when a step failed it returns its
\* input text.
C5_NeverFailsOutward ==
    \A c \in Callers :
        op[c] = "translate" =>
            /\ pc[c] # "raised"
            /\ (pc[c] = "done" /\ StepFailed(c)) => out[c] = text[c]

\* The engine's translate raised for a Ready pair and the input came back.
C5_Witness ==
    \E c \in Callers :
        /\ op[c] = "translate"
        /\ pc[c] = "done"
        /\ ret[c]
        /\ LoggedAs(tlog[c], "translate", "raise")
        /\ out[c] = text[c]

\* C6: an engine fault inside ensure_translation_package becomes the value
\* False: no exception propagates, and once the call has returned the caller
\* holds neither the lock nor a registry slot (its key is in the registry only
\* when another caller owns it).
C6_FaultsBecomeUnavailable ==
    \A c \in Callers :
        Faulted(elog[c]) =>
            /\ ~exc[c]
            /\ ~ret[c]
            /\ pc[c] # "raised"
            /\ called[c] = "returned" =>
                   /\ lock # c
                   /\ \/ Key(c) \notin downloading
                      \/ \E c2 \in Callers \ {c} : Owns(c2, Key(c))

\* A direct call has returned False after install_from_path raised.
C6_Witness ==
    \E c \in Callers :
        /\ op[c] = "ensure"
        /\ pc[c] = "done"
        /\ LoggedAs(elog[c], "install_from_path", "raise")
        /\ ~ret[c]

\* C7: when ensure_translation_package returned False, translate_text makes no
\* engine call of its own and returns its input text.
C7_NoEngineAfterFailure ==
    \A c \in Callers :
        (op[c] = "translate" /\ called[c] = "returned" /\ ~ret[c]) =>
            /\ tlog[c] = <<>>
            /\ pc[c] \in {"lookup", "done"}
            /\ pc[c] = "done" => out[c] = text[c]

\* translate_text has returned for a pair the upstream index does not list.
C7_Witness ==
    \E c \in Callers :
        /\ op[c] = "translate"
        /\ called[c] = "returned"
        /\ ~ret[c]
        /\ pc[c] = "done"
        /\ LoggedAs(elog[c], "get_available_packages", "ok")
        /\ Pair(c) \notin AvailablePackages

\* C8: no caller is inside the download/install step of a pair for which
\* ensure_translation_package has returned True before.
C8_NoDownloadAfterReady ==
    \A c \in Callers : InFlight(c) => Pair(c) \notin readyPairs

\* A call for a pair that was Ready before got past the installed check and
\* found the package installed, without a download.
C8_Witness ==
    \E c \in Callers :
        /\ called[c] = "active"
        /\ Pair(c) \in readyPairs
        /\ LoggedAs(elog[c], "is_installed", "yes")
        /\ pc[c] = "finally"
        /\ ret[c]

\* C9: a call of ensure_translation_package with source "auto" or with source
\* equal to target returns True in its first step, with no engine call, and
\* leaves the lock, the registry and the engine's packages as they were.
C9_NoPackageNeeded ==
    [][\A c \in Callers :
          (/\ called[c] = "none"
           /\ called'[c] # "none"
           /\ (source_lang'[c] = S_auto \/ source_lang'[c] = target_lang'[c]))
          => /\ called'[c] = "returned"
             /\ ret'[c]
             /\ elog'[c] = <<>>
             /\ UNCHANGED <<lock, downloading, installed, visible>>]_vars

\* One caller has its answer for source "auto" and another for an identity
\* pair.
C9_Witness ==
    \E c1 \in Callers, c2 \in Callers :
        /\ op[c1] = "ensure" /\ pc[c1] = "done" /\ ret[c1]
        /\ source_lang[c1] = S_auto
        /\ op[c2] = "ensure" /\ pc[c2] = "done" /\ ret[c2]
        /\ source_lang[c2] = target_lang[c2]
        /\ source_lang[c2] # S_auto

\* C10: when the engine yields a working translation for the pair, the call
\* returns True after the installed check alone: no index refresh, listing,
\* download or install.
C10_InstalledPairIsReady ==
    \A c \in Callers :
        LoggedAs(elog[c], "get_translation", "ok") =>
            /\ ret[c]
            /\ ~exc[c]
            /\ elog[c] = <<(<<"get_installed_languages", "ok">>),
                           (<<"get_translation", "ok">>)>>
            /\ pc[c] \notin {"installed", "update", "list", "download", "install"}

\* A call has returned True on the working path.
C10_Witness ==
    \E c \in Callers :
        /\ called[c] = "returned"
        /\ LoggedAs(elog[c], "get_translation", "ok")
        /\ ret[c]
        /\ Pair(c) \in visible

\* The number of calls of an engine function a log holds.
Calls(l, name) == Cardinality({i \in 1..Len(l) : l[i][1] = name})

\* Caller c has called ensure_translation_package for a pair of distinct codes,
\* the source not the sentinel, that the upstream index does not list and that
\* has no working installed translation.
NotUpstream(c) ==
    /\ called[c] # "none"
    /\ source_lang[c] # S_auto
    /\ source_lang[c] # target_lang[c]
    /\ Pair(c) \notin AvailablePackages
    /\ ~LoggedAs(elog[c], "get_translation", "ok")

\* C11: a call for a pair with no working installed translation and no exact
\* entry upstream never returns True and never reaches download() or
\* install_from_path; the index is refreshed at most once, and when no engine
\* call raised the call returns False after exactly one refresh and one listing.
C11_UnavailableAfterOneRefresh ==
    \A c \in Callers :
        NotUpstream(c) =>
            /\ ~ret[c]
            /\ ~InFlight(c)
            /\ ~Logged(elog[c], "is_installed")
            /\ ~Logged(elog[c], "download")
            /\ ~Logged(elog[c], "install_from_path")
            /\ Calls(elog[c], "update_package_index") <= 1
            /\ (called[c] = "returned" /\ ~Faulted(elog[c])) =>
                   /\ Calls(elog[c], "update_package_index") = 1
                   /\ Calls(elog[c], "get_available_packages") = 1
                   /\ elog[c][Len(elog[c])] = <<"get_available_packages", "ok">>

\* A call for a pair with a code outside the catalog has returned False after
\* the installed check, one refresh and one listing.
C11_Witness ==
    \E c \in Callers :
        /\ NotUpstream(c)
        /\ source_lang[c] = S_xx
        /\ called[c] = "returned"
        /\ ~ret[c]
        /\ elog[c] = <<(<<"get_installed_languages", "ok">>),
                       (<<"update_package_index", "ok">>),
                       (<<"get_available_packages", "ok">>)>>

\* The text has a character that is not whitespace.
NonBlank(tx) == \E i \in 1..Len(tx) : tx[i] \notin Whitespace

\* C12: when the resolved source and target codes of a call of translate_text
\* are identical, after auto-detection where it applies, the call returns its
\* text unchanged and has called neither ensure_translation_package nor the
\* engine.
C12_SameLanguageUnchanged ==
    \A c \in Callers :
        (op[c] = "translate" /\ NonBlank(text[c]) /\ source_lang[c] = target_lang[c]) =>
            /\ pc[c] = "done"
            /\ out[c] = text[c]
            /\ called[c] = "none"
            /\ elog[c] = <<>>
            /\ tlog[c] = <<>>

\* A call whose source was detected as the target's language, and a call with
\* the same display name twice, have returned their text.
C12_Witness ==
    \E c1 \in Callers, c2 \in Callers :
        /\ op[c1] = "translate" /\ pc[c1] = "done"
        /\ detected[c1] = S_it /\ target_lang[c1] = S_it
        /\ out[c1] = text[c1]
        /\ op[c2] = "translate" /\ pc[c2] = "done"
        /\ NonBlank(text[c2])
        /\ source_display[c2] = target_display[c2]
        /\ out[c2] = text[c2]

\* C13: a call of translate_text with an empty or whitespace-only text returns
\* that text: no code is resolved, the detector is not called, and neither
\* ensure_translation_package nor the engine is called.
C13_BlankTextUnchanged ==
    \A c \in Callers :
        (op[c] = "translate" /\ ~NonBlank(text[c])) =>
            /\ pc[c] = "done"
            /\ out[c] = text[c]
            /\ detected[c] = <<>>
            /\ source_lang[c] = <<>>
            /\ target_lang[c] = <<>>
            /\ called[c] = "none"
            /\ elog[c] = <<>>
            /\ tlog[c] = <<>>

\* A call with the empty text and a call with a whitespace-only text, both with
\* a source to detect, have returned.
C13_Witness ==
    \E c1 \in Callers, c2 \in Callers :
        /\ op[c1] = "translate" /\ pc[c1] = "done"
        /\ text[c1] = <<>> /\ out[c1] = <<>>
        /\ source_display[c1] = D_auto
        /\ op[c2] = "translate" /\ pc[c2] = "done"
        /\ text[c2] # <<>> /\ ~NonBlank(text[c2])
        /\ source_display[c2] = D_auto
        /\ out[c2] = text[c2]

\* ------------------------------------------------------------------ properties of the detector
\* The length of the text without its leading and trailing whitespace.
TrimmedLen(tx) ==
    IF ~NonBlank(tx) THEN 0
    ELSE LET inked == {i \in 1..Len(tx) : tx[i] \notin Whitespace}
             first == CHOOSE i \in inked : \A j \in inked : i <= j
             last == CHOOSE i \in inked : \A j \in inked : j <= i
         IN last - first + 1

HasChar(tx, chars) == \E i \in 1..Len(tx) : tx[i] \in chars

\* The language codes the detector names.
DetectorCodes ==
    {S_en, S_it, <<"u", "k">>, <<"r", "u">>, <<"z", "h">>, <<"j", "a">>, <<"k", "o">>,
     <<"a", "r">>, <<"h", "e">>, <<"e", "l">>, <<"t", "h">>, <<"e", "s">>, <<"f", "r">>,
     <<"d", "e">>, <<"p", "t">>, <<"s", "v">>, <<"n", "o">>, <<"d", "a">>}

\* Caller c has called simple_language_detect(text[c]) and holds its result.
Detected(c) == op[c] = "detect" /\ pc[c] = "done"

\* C14: simple_language_detect returns a language code for every text, and
\* "en" for every text whose trimmed length is below 3, whatever its characters.
C14_ShortTextIsEnglish ==
    \A c \in Callers :
        Detected(c) =>
            /\ detected[c] \in DetectorCodes
            /\ TrimmedLen(text[c]) < 3 => detected[c] = S_en

\* A text of three or more characters, fewer than three of them between its
\* outer blanks, one of them Cyrillic, was detected as English.
C14_Witness ==
    \E c \in Callers :
        /\ Detected(c)
        /\ Len(text[c]) >= 3
        /\ TrimmedLen(text[c]) < 3
        /\ HasChar(text[c], {"U+0449", "U+043E", "U+0429"})
        /\ detected[c] = S_en

\* The script blocks in the order of their tests, each with the characters of
\* ScriptAlphabet that lie in it and the codes its test yields: Cyrillic, CJK,
\* Hiragana, Hangul, Arabic, Hebrew, Greek, Thai.
Blocks ==
    <<[chars |-> {"U+0449", "U+043E", "U+0429"}, codes |-> {<<"u", "k">>, <<"r", "u">>}],
      [chars |-> {"U+4E2D"}, codes |-> {<<"z", "h">>}],
      [chars |-> {"U+306E"}, codes |-> {<<"j", "a">>}],
      [chars |-> {"U+D55C"}, codes |-> {<<"k", "o">>}],
      [chars |-> {"U+0639"}, codes |-> {<<"a", "r">>}],
      [chars |-> {"U+05E2"}, codes |-> {<<"h", "e">>}],
      [chars |-> {"U+03BB"}, codes |-> {<<"e", "l">>}],
      [chars |-> {"U+0E44"}, codes |-> {<<"t", "h">>}]>>

\* Block k is the earliest block a character of the text lies in.
EarliestBlock(tx, k) ==
    /\ HasChar(tx, Blocks[k].chars)
    /\ \A j \in 1..(k - 1) : ~HasChar(tx, Blocks[j].chars)

\* C15: for a text of trimmed length 3 or more the result is that of the
\* earliest script block, in the order Cyrillic, CJK, Hiragana, Hangul, Arabic,
\* Hebrew, Greek, Thai, that a character of the text lies in; for Cyrillic it is
\* "uk" when a Ukrainian stop-word occurs in the lowered text, else "ru".
C15_ScriptPriority ==
    \A c \in Callers :
        (Detected(c) /\ TrimmedLen(text[c]) >= 3) =>
            \A k \in 1..Len(Blocks) :
                EarliestBlock(text[c], k) =>
                    /\ detected[c] \in Blocks[k].codes
                    /\ k = 1 => (detected[c] = <<"u", "k">>
                                   <=> AnyWord(Lower(text[c]), UkrainianWords))

\* A text with a Thai, a Hiragana and a CJK character was detected as Chinese.
C15_Witness ==
    \E c \in Callers :
        /\ Detected(c)
        /\ TrimmedLen(text[c]) >= 3
        /\ HasChar(text[c], Blocks[8].chars)
        /\ HasChar(text[c], Blocks[3].chars)
        /\ HasChar(text[c], Blocks[2].chars)
        /\ detected[c] = <<"z", "h">>

\* The five stop-word lists of the accented branch in the order of their tests.
Lists ==
    <<[words |-> ItalianWords, code |-> S_it],
      [words |-> SpanishWords, code |-> <<"e", "s">>],
      [words |-> FrenchWords, code |-> <<"f", "r">>],
      [words |-> GermanWords, code |-> <<"d", "e">>],
      [words |-> PortugueseWords, code |-> <<"p", "t">>]>>

\* List k is the first list with a stop-word in the lowered text.
FirstMatch(tx, k) ==
    /\ AnyWord(Lower(tx), Lists[k].words)
    /\ \A j \in 1..(k - 1) : ~AnyWord(Lower(tx), Lists[j].words)

\* The text has no character of a script block and an accented character of
\* the fixed set.
AccentedLatin(tx) ==
    /\ \A k \in 1..Len(Blocks) : ~HasChar(tx, Blocks[k].chars)
    /\ HasChar(tx, AccentedChars)

\* C16 as stated: for a text with no character of a script block and an
\* accented character of the fixed set the result is the code of the first of
\* the lists it, es, fr, de, pt that has a match.
C16_FirstMatchingList ==
    \A c \in Callers :
        (Detected(c) /\ AccentedLatin(text[c])) =>
            \A k \in 1..Len(Lists) :
                FirstMatch(text[c], k) => detected[c] = Lists[k].code

\* C16 for the texts the length test lets through: for a text of trimmed length
\* 3 or more with no character of a script block and an accented character of
\* the fixed set the result is the code of the first of the lists it, es, fr,
\* de, pt that has a match.
C16_FirstMatchingListOfLongText ==
    \A c \in Callers :
        (Detected(c) /\ TrimmedLen(text[c]) >= 3 /\ AccentedLatin(text[c])) =>
            \A k \in 1..Len(Lists) :
                FirstMatch(text[c], k) => detected[c] = Lists[k].code

\* "Il gatto non e qui", with its accented e, was detected as Italian although
\* stop-words of later lists occur in it too.
C16_Witness ==
    \E c \in Callers :
        /\ Detected(c)
        /\ text[c] = T_gatto
        /\ FirstMatch(T_gatto, 1)
        /\ AnyWord(Lower(T_gatto), SpanishWords)
        /\ detected[c] = S_it

\* ------------------------------------------------------------------ properties of the registry
\* Caller c itself got past the registration of its key: its own is_installed()
\* answered False, and the add follows it.
Registered(c) == LoggedAs(elog[c], "is_installed", "no")

\* A step that changes the installed packages is the install_from_path of a
\* caller whose key is in the registry, adding that caller's pair.
InstallStepOwned ==
    installed' # installed =>
        \E c \in Callers :
            /\ pc[c] = "install"
            /\ Registered(c)
            /\ Key(c) \in downloading
            /\ installed' = installed \cup {Pair(c)}

\* C17: in every state in which a caller is executing download() or
\* install_from_path for a pair, the key of that pair is in _downloading and
\* that same caller has put it there; and the installed packages change only
\* in such a caller's install step.
C17_InFlightOwnsKey ==
    /\ [](\A c \in Callers : InFlight(c) => (Key(c) \in downloading /\ Registered(c)))
    /\ [][InstallStepOwned]_vars

\* A caller has downloaded its package and is about to install it, its key in
\* the registry, while the other caller waits for the lock.
C17_Witness ==
    \E c1 \in Callers, c2 \in Callers :
        /\ pc[c1] = "install"
        /\ LoggedAs(elog[c1], "download", "ok")
        /\ downloading = {Key(c1)}
        /\ pc[c2] = "lock"

\* The engine calls of the download path, each returned without a fault, in
\* the order of the code.
DownloadPath ==
    <<(<<"update_package_index", "ok">>), (<<"get_available_packages", "ok">>),
      (<<"is_installed", "no">>), (<<"download", "ok">>),
      (<<"install_from_path", "ok">>)>>

\* C18: for a pair that was found upstream and was not installed, the call
\* holds True as its value only after the index refresh, the listing,
\* download() and install_from_path have all returned without a fault, in that
\* order, as its last engine calls.
C18_ReadyOnlyAfterInstall ==
    \A c \in Callers :
        (Registered(c) /\ ret[c]) =>
            /\ Pair(c) \in AvailablePackages
            /\ ~Faulted(elog[c])
            /\ Len(elog[c]) >= Len(DownloadPath)
            /\ SubSeq(elog[c], Len(elog[c]) - Len(DownloadPath) + 1, Len(elog[c]))
                   = DownloadPath
            /\ Pair(c) \in installed
            /\ pc[c] \notin {"download", "install"}

\* A call for a listed pair that was not installed has returned True after the
\* whole download path.
C18_Witness ==
    \E c \in Callers :
        /\ called[c] = "returned"
        /\ ret[c]
        /\ Pair(c) = <<S_it, S_en>>
        /\ elog[c] = <<(<<"get_installed_languages", "ok">>)>> \o DownloadPath

\* C19: translate_text never calls ensure_translation_package with the source
\* "auto" nor with a source equal to the target: a source resolved to "auto" is
\* replaced by the result of simple_language_detect(text), which is never
\* "auto", before the call, and identical codes return before it.
C19_EnsureCalledWithRealPair ==
    \A c \in Callers :
        op[c] = "translate" =>
            /\ called[c] # "none" =>
                   /\ source_lang[c] # S_auto
                   /\ source_lang[c] # target_lang[c]
            /\ (NonBlank(text[c])
                  /\ get_language_code_from_display(source_display[c]) = S_auto) =>
                   /\ detected[c] = simple_language_detect(text[c])
                   /\ detected[c] \in DetectorCodes
                   /\ source_lang[c] = detected[c]

\* translate_text has called ensure_translation_package with the detected code
\* of a text whose source was given as "auto".
C19_Witness ==
    \E c \in Callers :
        /\ op[c] = "translate"
        /\ called[c] = "active"
        /\ source_display[c] = D_auto
        /\ detected[c] = S_it
        /\ Pair(c) = <<S_it, S_en>>

\* A caller's step through the with statement: it takes the lock.
Acquires(c) == pc[c] = "lock" /\ lock' = c

\* C20: in every state in which no caller holds _download_lock the set
\* _downloading is empty, and every caller that acquires the lock finds its key
\* absent from _downloading and goes on to the installed check.
C20_RegistryEmptyWhenUnlocked ==
    /\ [](lock = 0 => downloading = {})
    /\ [][\A c \in Callers :
            Acquires(c) => (Key(c) \notin downloading /\ pc'[c] = "installed")]_vars

\* The lock is free and the registry empty after a caller's download, and the
\* other caller, asking for the same pair, is about to take the lock.
C20_Witness ==
    \E c1 \in Callers, c2 \in Callers :
        /\ lock = 0
        /\ downloading = {}
        /\ called[c1] = "returned"
        /\ Logged(elog[c1], "download")
        /\ pc[c2] = "lock"
        /\ Key(c2) = Key(c1)

\* ------------------------------------------------------------------ properties of progress
\* C21: when every engine call returns or raises and the scheduling is fair,
\* every call of ensure_translation_package that has got past its early returns
\* returns, and _download_lock is released after every acquisition.
C21_Progress ==
    \A c \in Callers :
        /\ (called[c] = "active") ~> (called[c] = "returned")
        /\ (lock = c) ~> (lock # c)

\* A caller waits for the lock while the other caller, asking for another pair,
\* holds it inside download().
C21_Witness ==
    \E c1 \in Callers, c2 \in Callers :
        /\ pc[c1] = "download"
        /\ lock = c1
        /\ pc[c2] = "lock"
        /\ called[c2] = "active"
        /\ Key(c2) # Key(c1)

\* ------------------------------------------------------------------ properties of conditional_translate
\* Caller c is in conditional_translate, the detector has answered, and its
\* answer is the code of the target language.
DetectedIsTarget(c) ==
    /\ op[c] = "conditional"
    /\ detected[c] # <<>>
    /\ detected[c] = get_language_code_from_display(target_display[c])

\* C22: in conditional_translate, whenever the detected code equals the target
\* code, final_text is the input text and neither ensure_translation_package
\* nor the engine is called, whatever always_translate is.
C22_DetectedTargetUnchanged ==
    \A c \in Callers :
        DetectedIsTarget(c) =>
            /\ pc[c] = "done"
            /\ out[c] = text[c]
            /\ called[c] = "none"
            /\ elog[c] = <<>>
            /\ tlog[c] = <<>>

\* Two calls whose text was detected as the target's language, one with
\* always_translate and one without, have returned the text.
C22_Witness ==
    \E c1 \in Callers, c2 \in Callers :
        /\ DetectedIsTarget(c1) /\ always_translate[c1]
        /\ source_display[c1] = display_name(detected[c1])
        /\ out[c1] = text[c1]
        /\ DetectedIsTarget(c2) /\ ~always_translate[c2]
        /\ source_display[c2] = <<>>
        /\ out[c2] = text[c2]

====
